---- MODULE Spec2Model ----
(***************************************************************************)
(* PowerManagingActor (frequenz.sdk.actor._power_managing): the actor's    *)
(* _run loop, the bounds tracker tasks it spawns and the report fan-out,   *)
(* as asyncio coroutines.  Every action is the code one coroutine runs     *)
(* between two awaits.                                                     *)
(***************************************************************************)
EXTENDS Integers, Sequences, FiniteSets, TLC

\* ---------------------------------------------------------------- bounds
\* events the actor takes from its two receivers
MaxEvents == 3
\* values each bounds channel yields
MaxUpdates == 3

\* ---------------------------------------------------------------- inputs
G12 == {1, 2}
G3 == {3}
Groups == {G12, G3}

B500 == [lower |-> -500, upper |-> 500]
B300 == [lower |-> -300, upper |-> 300]
BoundsValues == {B500, B300}

\* the stream of each group's bounds channel: its k-th value
Stream(g, k) ==
  IF g = G12 THEN (IF k % 2 = 1 THEN B500 ELSE B300)
  ELSE (IF k % 2 = 1 THEN B300 ELSE B500)

\* how many values a group's bounds channel yields before it is closed: the
\* channel of {3} yields its first value only
StreamLen(g) == IF g = G12 THEN MaxUpdates ELSE 1

\* dict.get's None
None == [lower |-> 0, upper |-> 0]

ProposalInputs ==
  { [battery_ids |-> G12, priority |-> 5, power |-> 100,
     request_timeout |-> 5, include_broken_batteries |-> FALSE],
    [battery_ids |-> G3, priority |-> 6, power |-> -400,
     request_timeout |-> 10, include_broken_batteries |-> TRUE] }

SubInputs ==
  { [battery_ids |-> G12, priority |-> 1, channel |-> "a"],
    [battery_ids |-> G12, priority |-> 2, channel |-> "b"],
    [battery_ids |-> G12, priority |-> 3, channel |-> "c"],
    [battery_ids |-> G12, priority |-> 1, channel |-> "d"] }

Channels == {s.channel : s \in SubInputs}

\* the destinations that never accept a message, fixed for a whole run
StalledChoices == {{}, {"b"}}

VARIABLES
  system_bounds,        \* self._system_bounds: dict group -> PowerMetrics
  bound_tracker_tasks,  \* self._bound_tracker_tasks: dict group -> task
  subscriptions,        \* self._subscriptions: dict group -> dict priority -> sender
  algorithm,            \* self._algorithm: the Matryoshka instance's state
  tasks,                \* the asyncio tasks created so far, in creation order
  cpc,                  \* where _run is suspended
  selected,             \* _run's `selected`
  request,              \* the power_distributing.Request _run is sending
  cfan,                 \* the _send_report frame of _run
  error,                \* the exception _run has raised, if any
  requests,             \* what the power distributing sender has accepted
  applied,              \* history: per group, the bounds written to the cache
  taken,                \* history: the proposals _run has taken
  handled,              \* history: the handle_proposal calls, in order
  seen,                 \* history: the groups of the events _run has taken
  prior,                \* history: sender of the selected pair before the event
  nsubs,                \* history: number of subscription events taken
  stalled,              \* environment: the channels that never accept
  algorithm_arg,        \* the `algorithm` argument __init__ was called with
  attrs,                \* the attributes __init__ has set on the actor
  cver,                 \* history: which value of its group's channel cfan holds
  latest,               \* history: per channel, the newest value a report showed
  reordered,            \* history: a channel got a report older than its latest
  placed                \* environment: the messages put on the two receivers

vars == <<system_bounds, bound_tracker_tasks, subscriptions, algorithm, tasks,
          cpc, selected, request, cfan, error, requests, applied, taken,
          handled, seen, prior, nsubs, stalled, algorithm_arg, attrs, cver,
          latest, reordered, placed>>

\* ------------------------------------------------------------ dict helpers
get(d, k) == IF k \in DOMAIN d THEN d[k] ELSE None

setitem(d, k, v) == [x \in DOMAIN d \cup {k} |-> IF x = k THEN v ELSE d[x]]

\* self._subscriptions.get(battery_ids, {}).items(), in insertion order
items(subs, g) == IF g \in DOMAIN subs THEN subs[g] ELSE <<>>

priorities(its) == {its[i].priority : i \in 1..Len(its)}

\* the sender a dict of one group holds for a priority
sender_of(its, p) ==
  LET i == CHOOSE j \in 1..Len(its) : its[j].priority = p IN its[i].sender

\* ------------------------------------------------- external collaborators
\* ReportRequest.get_channel_name: the channel the reports of a request go to
get_channel_name(sub) == sub.channel

\* Matryoshka.get_status: the report of one priority of a group
get_status(battery_ids, priority, bounds) ==
  [battery_ids |-> battery_ids, priority |-> priority, bounds |-> bounds]

clamp(x, lo, hi) == IF x < lo THEN lo ELSE IF x > hi THEN hi ELSE x

\* Matryoshka's state after handle_proposal: per group, the proposal of the
\* highest priority seen
remember(alg, proposal) ==
  LET g == proposal.battery_ids IN
  IF g \notin DOMAIN alg \/ proposal.priority >= alg[g].priority
  THEN setitem(alg, g, [priority |-> proposal.priority, power |-> proposal.power])
  ELSE alg

\* Matryoshka.handle_proposal: the target power of the proposal's group
handle_proposal(alg, proposal, bounds) ==
  clamp(remember(alg, proposal)[proposal.battery_ids].power,
        bounds.lower, bounds.upper)

\* ------------------------------------------------------------ _send_report
NoFrame ==
  [battery_ids |-> {}, bounds |-> None, used |-> 0, idx |-> 0,
   status |-> "none", delivered |-> <<>>, snapshot |-> <<>>]

\* a _send_report that looks the group's senders up under a key the
\* subscription dict never holds
send_report_wrong_key(battery_ids, sb, subs) ==
  LET bounds == get(sb, battery_ids) IN
  IF bounds = None
  THEN [NoFrame EXCEPT !.battery_ids = battery_ids, !.status = "warned"]
  ELSE [battery_ids |-> battery_ids, bounds |-> bounds, used |-> 0, idx |-> 0,
        status |-> "returned", delivered |-> <<>>, snapshot |-> <<>>]

\* _send_report up to its first await: the frame of the call.  `used` is the
\* size the dict iterator remembers, `idx` the number of items it has passed;
\* `snapshot` and `delivered` are history.
send_report(battery_ids, sb, subs) ==
  LET bounds == get(sb, battery_ids)
      its == items(subs, battery_ids)
  IN  IF bounds = None
      THEN [NoFrame EXCEPT !.battery_ids = battery_ids, !.status = "warned"]
      ELSE [battery_ids |-> battery_ids, bounds |-> bounds, used |-> Len(its),
            idx |-> 0,
            status |-> IF its = <<>> THEN "returned" ELSE "sending",
            delivered |-> <<>>, snapshot |-> its]

\* the (sender, message) pair a suspended _send_report is sending
pending(frame, subs) ==
  LET it == items(subs, frame.battery_ids)[frame.idx + 1] IN
  [sender |-> it.sender,
   report |-> get_status(frame.battery_ids, it.priority, frame.bounds)]

\* a send that never completes: the frame stays where it is
send_done_stuck(frame, subs) == frame

\* _send_report from the completion of one send to its next await: the dict
\* iterator raises when the dict has changed size since the loop started
send_done(frame, subs) ==
  LET its == items(subs, frame.battery_ids)
      f == [frame EXCEPT !.idx = @ + 1,
                         !.delivered = Append(@, pending(frame, subs))]
  IN  IF Len(its) # frame.used THEN [f EXCEPT !.status = "RuntimeError"]
      ELSE IF f.idx = frame.used THEN [f EXCEPT !.status = "returned"]
      ELSE f

\* ------------------------------------------------------------------- _run
\* a proposal path that never asks for a tracker
has_bounds_always(sb, battery_ids) == TRUE

\* line 134: proposal.battery_ids not in self._system_bounds
has_bounds(sb, battery_ids) == battery_ids \in DOMAIN sb

\* a subscription path that adds a tracker on every request
has_tracker_never(btt, battery_ids) == FALSE

\* a subscription path that never adds a tracker
has_tracker_always(btt, battery_ids) == TRUE

\* a subscription path that asks for a new tracker when the group's tracker
\* has ended
has_tracker_retry(btt, battery_ids) ==
  battery_ids \in DOMAIN btt /\ tasks[btt[battery_ids]].pc # "done"


\* line 167: sub.battery_ids not in self._bound_tracker_tasks
has_tracker(btt, battery_ids) == battery_ids \in DOMAIN btt

\* a registration that keeps a list of senders instead of a dict
register_append(subs, sub) ==
  LET g == sub.battery_ids
      it == [priority |-> sub.priority, sender |-> get_channel_name(sub)]
  IN  setitem(subs, g, Append(items(subs, g), it))

\* a registration that replaces the sender of a pair it already holds
register_overwrite(subs, sub) ==
  LET g == sub.battery_ids
      it == [priority |-> sub.priority, sender |-> get_channel_name(sub)]
      its == items(subs, g)
  IN  IF sub.priority \in priorities(its)
      THEN setitem(subs, g, [k \in 1..Len(its) |->
                               IF its[k].priority = sub.priority THEN it ELSE its[k]])
      ELSE setitem(subs, g, Append(its, it))

\* lines 156-165: the subscription dict after a ReportRequest
register(subs, sub) ==
  LET g == sub.battery_ids
      it == [priority |-> sub.priority, sender |-> get_channel_name(sub)]
  IN  IF g \notin DOMAIN subs THEN setitem(subs, g, <<it>>)
      ELSE IF sub.priority \notin priorities(subs[g])
           THEN setitem(subs, g, Append(subs[g], it))
           ELSE subs

\* a request that forwards the proposed power instead of the target power
Request_proposed_power(proposal, target_power) ==
  [power |-> proposal.power,
   batteries |-> proposal.battery_ids,
   request_timeout |-> proposal.request_timeout,
   adjust_power |-> TRUE,
   include_broken_batteries |-> proposal.include_broken_batteries]

\* lines 142-148: the request built for a proposal
Request(proposal, target_power) ==
  [power |-> target_power,
   batteries |-> proposal.battery_ids,
   request_timeout |-> proposal.request_timeout,
   adjust_power |-> TRUE,
   include_broken_batteries |-> proposal.include_broken_batteries]

NoRequest ==
  [power |-> 0, batteries |-> {}, request_timeout |-> 0,
   adjust_power |-> FALSE, include_broken_batteries |-> FALSE]

\* an _add_bounds_tracker that drops the first value of the channel
store_first_lost(sb, battery_ids, bounds) == sb


\* line 117: the cache after the first value of a new receiver is stored
store_first(sb, battery_ids, bounds) == setitem(sb, battery_ids, bounds)

\* a tracker that keeps the first value it finds in the cache
store_bounds_stale(sb, battery_ids, bounds) ==
  IF battery_ids \in DOMAIN sb THEN sb ELSE setitem(sb, battery_ids, bounds)

\* line 96: the cache after a tracker stores a value of its receiver
store_bounds(sb, battery_ids, bounds) == setitem(sb, battery_ids, bounds)

\* an _add_bounds_tracker that does not keep the task it creates
store_task_forget(btt, battery_ids, task) == btt


\* lines 120-122: the task table after the tracker task is created
store_task(btt, battery_ids, task) == setitem(btt, battery_ids, task)

NewTask(battery_ids) ==
  [battery_ids |-> battery_ids, pc |-> "recv", frame |-> NoFrame]

group_of(sel) == sel.value.battery_ids

EmptyDict == [k \in {} |-> None]

\* the values of the Algorithm enum a caller can pass: the one __init__
\* knows and another one
Algorithms == {"MATRYOSHKA", "OTHER"}

\* lines 58-67: the attributes __init__ sets
Attrs ==
  {"_bounds_subscription_receiver", "_power_distributing_requests_sender",
   "_channel_registry", "_proposals_receiver", "_system_bounds",
   "_bound_tracker_tasks", "_subscriptions", "_algorithm"}

\* an __init__ that takes any algorithm
is_supported_any(alg) == TRUE

\* line 53: algorithm is Algorithm.MATRYOSHKA
is_supported(alg) == alg = "MATRYOSHKA"

\* what callers put on the two receivers of an actor whose input is not
\* fixed in advance
Unplaced == [proposals |-> <<>>, subs |-> <<>>]

\* ------------------------------------------------------------ the machine
\* lines 53-69: the actor after __init__, or no actor when __init__ raises
Constructed ==
  /\ system_bounds = EmptyDict
  /\ bound_tracker_tasks = EmptyDict
  /\ subscriptions = EmptyDict
  /\ algorithm = EmptyDict
  /\ tasks = <<>>
  /\ algorithm_arg \in Algorithms
  /\ IF is_supported(algorithm_arg)
     THEN attrs = Attrs /\ cpc = "select" /\ error = "none"
     ELSE attrs = {} /\ cpc = "rejected" /\ error = "NotImplementedError"
  /\ selected = [kind |-> "none"]
  /\ request = NoRequest
  /\ cfan = NoFrame
  /\ cver = 0
  /\ latest = [c \in Channels |-> 0]
  /\ reordered = FALSE
  /\ requests = <<>>
  /\ applied = [g \in Groups |-> <<>>]
  /\ taken = <<>>
  /\ handled = <<>>
  /\ seen = {}
  /\ prior = "none"
  /\ nsubs = 0

Init ==
  /\ Constructed
  /\ stalled \in StalledChoices
  /\ placed = Unplaced

\* a channel accepts a report made from the version-th value of its group's
\* bounds channel
Deliver(channel, version) ==
  /\ latest' = [latest EXCEPT ![channel] = IF version > @ THEN version ELSE @]
  /\ reordered' = (reordered \/ version < latest[channel])

\* lines 137-149, up to the await of the send: the proposal is arbitrated
\* against the cached bounds of its group; a missing key raises KeyError
Arbitrate(proposal, sb, app) ==
  LET g == proposal.battery_ids IN
  IF g \in DOMAIN sb
  THEN LET target_power == handle_proposal(algorithm, proposal, sb[g]) IN
       /\ algorithm' = remember(algorithm, proposal)
       /\ handled' = Append(handled, [bounds |-> sb[g], version |-> Len(app[g]),
                                      target_power |-> target_power])
       /\ request' = Request(proposal, target_power)
       /\ cpc' = "send_request"
       /\ error' = error
  ELSE /\ cpc' = "raised"
       /\ error' = "KeyError"
       /\ UNCHANGED <<algorithm, handled, request>>

\* line 170, up to the first await of _send_report or its return
Report(battery_ids, sb, subs, app) ==
  LET f == send_report(battery_ids, sb, subs) IN
  /\ cfan' = f
  /\ cver' = Len(app[battery_ids])
  /\ cpc' = IF f.status = "sending" THEN "send_report" ELSE "select"

\* lines 129-141: select yields a proposal
TakeProposal(p) ==
  /\ cpc = "select"
  /\ Len(taken) + nsubs < MaxEvents
  /\ selected' = [kind |-> "proposal", value |-> p]
  /\ taken' = Append(taken, p)
  /\ seen' = seen \cup {p.battery_ids}
  /\ prior' = "none"
  /\ IF has_bounds(system_bounds, p.battery_ids)
     THEN Arbitrate(p, system_bounds, applied)
     ELSE /\ cpc' = "recv_first"
          /\ UNCHANGED <<algorithm, handled, request, error>>
  /\ UNCHANGED <<system_bounds, bound_tracker_tasks, subscriptions, tasks,
                 cfan, requests, applied, nsubs, stalled, algorithm_arg, attrs,
                 placed, cver, latest, reordered>>

\* lines 151-170: select yields a subscription request
TakeSub(sub) ==
  /\ cpc = "select"
  /\ Len(taken) + nsubs < MaxEvents
  /\ selected' = [kind |-> "sub", value |-> sub]
  /\ nsubs' = nsubs + 1
  /\ seen' = seen \cup {sub.battery_ids}
  /\ prior' = IF sub.priority \in priorities(items(subscriptions, sub.battery_ids))
              THEN sender_of(subscriptions[sub.battery_ids], sub.priority)
              ELSE "none"
  /\ subscriptions' = register(subscriptions, sub)
  /\ IF has_tracker(bound_tracker_tasks, sub.battery_ids)
     THEN Report(sub.battery_ids, system_bounds, subscriptions', applied)
     ELSE /\ cpc' = "recv_first"
          /\ UNCHANGED <<cfan, cver>>
  /\ UNCHANGED <<system_bounds, bound_tracker_tasks, algorithm, tasks, request,
                 error, requests, applied, taken, handled, stalled,
                 algorithm_arg, attrs, placed, latest, reordered>>

\* lines 117-122 and the rest of the event: the new receiver yields its first
\* value, the tracker task is created, and _run goes on to its next await
RecvFirst(bounds) ==
  LET g == group_of(selected) IN
  /\ cpc = "recv_first"
  /\ Len(applied[g]) < StreamLen(g)
  /\ bounds = Stream(g, Len(applied[g]) + 1)
  /\ system_bounds' = store_first(system_bounds, g, bounds)
  /\ applied' = [applied EXCEPT ![g] = Append(@, bounds)]
  /\ tasks' = Append(tasks, NewTask(g))
  /\ bound_tracker_tasks' = store_task(bound_tracker_tasks, g, Len(tasks) + 1)
  /\ IF selected.kind = "proposal"
     THEN /\ Arbitrate(selected.value, system_bounds', applied')
          /\ UNCHANGED <<cfan, cver>>
     ELSE /\ Report(g, system_bounds', subscriptions, applied')
          /\ UNCHANGED <<algorithm, handled, request, error>>
  /\ UNCHANGED <<subscriptions, selected, requests, taken, seen, prior, nsubs,
                 stalled, algorithm_arg, attrs, placed, latest, reordered>>

\* line 117: the bounds channel is closed before a first value, receive raises
RecvFirstStopped ==
  /\ cpc = "recv_first"
  /\ cpc' = "raised"
  /\ error' = "ReceiverStoppedError"
  /\ UNCHANGED <<system_bounds, bound_tracker_tasks, subscriptions, algorithm,
                 tasks, selected, request, cfan, requests, applied, taken,
                 handled, seen, prior, nsubs, stalled, algorithm_arg, attrs, placed,
                 cver, latest, reordered>>

\* lines 141-149: the power distributing sender accepts the request
SendRequestDone ==
  /\ cpc = "send_request"
  /\ requests' = Append(requests, request)
  /\ cpc' = "select"
  /\ UNCHANGED <<system_bounds, bound_tracker_tasks, subscriptions, algorithm,
                 tasks, selected, request, cfan, error, applied, taken, handled,
                 seen, prior, nsubs, stalled, algorithm_arg, attrs, placed,
                 cver, latest, reordered>>

\* lines 81-82 under line 170: a report sender accepts the report of _run
SendReportDone ==
  /\ cpc = "send_report"
  /\ pending(cfan, subscriptions).sender \notin stalled
  /\ LET f == send_done(cfan, subscriptions) IN
     /\ cfan' = f
     /\ cpc' = CASE f.status = "sending" -> "send_report"
                 [] f.status = "returned" -> "select"
                 [] OTHER -> "raised"
     /\ error' = IF f.status = "RuntimeError" THEN "RuntimeError" ELSE error
  /\ Deliver(pending(cfan, subscriptions).sender, cver)
  /\ UNCHANGED <<system_bounds, bound_tracker_tasks, subscriptions, algorithm,
                 tasks, selected, request, requests, applied, taken, handled,
                 seen, prior, nsubs, stalled, algorithm_arg, attrs, placed, cver>>

\* --------------------------------------------------------- _bounds_tracker
\* a tracker that starts the fan-out of a value without awaiting it
TrackerUpdate_unawaited(i, bounds) ==
  LET g == tasks[i].battery_ids
      sb == store_bounds(system_bounds, g, bounds)
      f == send_report(g, sb, subscriptions)
  IN  /\ tasks[i].pc = "recv"
      /\ Len(applied[g]) < StreamLen(g)
      /\ bounds = Stream(g, Len(applied[g]) + 1)
      /\ system_bounds' = sb
      /\ applied' = [applied EXCEPT ![g] = Append(@, bounds)]
      /\ tasks' = [tasks EXCEPT ![i].frame = f]
      /\ UNCHANGED <<bound_tracker_tasks, subscriptions, algorithm, cpc,
                     selected, request, cfan, error, requests, taken, handled,
                     seen, prior, nsubs, stalled, algorithm_arg, attrs, placed,
                     cver, latest, reordered>>

\* lines 95-97: the receiver of task i yields a value; the cache is
\* overwritten and _send_report runs to its first await
TrackerUpdate(i, bounds) ==
  LET g == tasks[i].battery_ids
      sb == store_bounds(system_bounds, g, bounds)
      f == send_report(g, sb, subscriptions)
  IN  /\ tasks[i].pc = "recv"
      /\ Len(applied[g]) < StreamLen(g)
      /\ bounds = Stream(g, Len(applied[g]) + 1)
      /\ system_bounds' = sb
      /\ applied' = [applied EXCEPT ![g] = Append(@, bounds)]
      /\ tasks' = [tasks EXCEPT ![i].frame = f,
                                ![i].pc = IF f.status = "sending"
                                          THEN "send" ELSE "recv"]
      /\ UNCHANGED <<bound_tracker_tasks, subscriptions, algorithm, cpc,
                     selected, request, cfan, error, requests, taken, handled,
                     seen, prior, nsubs, stalled, algorithm_arg, attrs, placed,
                 cver, latest, reordered>>

\* lines 81-82 under line 97: a report sender accepts the report of task i
TrackerSendDone(i) ==
  /\ tasks[i].pc = "send"
  /\ pending(tasks[i].frame, subscriptions).sender \notin stalled
  /\ LET f == send_done(tasks[i].frame, subscriptions) IN
     tasks' = [tasks EXCEPT ![i].frame = f,
                            ![i].pc = CASE f.status = "sending" -> "send"
                                        [] f.status = "returned" -> "recv"
                                        [] OTHER -> "failed"]
  /\ Deliver(pending(tasks[i].frame, subscriptions).sender,
             Len(applied[tasks[i].battery_ids]))
  /\ UNCHANGED <<system_bounds, bound_tracker_tasks, subscriptions, algorithm,
                 cpc, selected, request, cfan, error, requests, applied, taken,
                 handled, seen, prior, nsubs, stalled, algorithm_arg, attrs, placed, cver>>

\* line 95: the bounds channel of task i is closed, the async for ends
TrackerStopped(i) ==
  /\ tasks[i].pc = "recv"
  /\ tasks' = [tasks EXCEPT ![i].pc = "done"]
  /\ UNCHANGED <<system_bounds, bound_tracker_tasks, subscriptions, algorithm,
                 cpc, selected, request, cfan, error, requests, applied, taken,
                 handled, seen, prior, nsubs, stalled, algorithm_arg, attrs, placed,
                 cver, latest, reordered>>

\* the task that runs _run is cancelled at one of its awaits (lines 131,
\* 117, 141, 82): CancelledError leaves _run, which has no handler for it;
\* the tasks made at line 120 are held in _bound_tracker_tasks only
Shutdown ==
  /\ cpc \in {"select", "recv_first", "send_request", "send_report"}
  /\ cpc' = "cancelled"
  /\ UNCHANGED <<system_bounds, bound_tracker_tasks, subscriptions, algorithm,
                 tasks, selected, request, cfan, error, requests, applied,
                 taken, handled, seen, prior, nsubs, stalled, algorithm_arg,
                 attrs, cver, latest, reordered, placed>>

Next ==
  \/ \E p \in ProposalInputs : TakeProposal(p)
  \/ \E sub \in SubInputs : TakeSub(sub)
  \/ \E bounds \in BoundsValues : RecvFirst(bounds)
  \/ RecvFirstStopped
  \/ SendRequestDone
  \/ SendReportDone
  \/ \E i \in 1..Len(tasks), bounds \in BoundsValues : TrackerUpdate(i, bounds)
  \/ \E i \in 1..Len(tasks) : TrackerSendDone(i)
  \/ \E i \in 1..Len(tasks) : TrackerStopped(i)
  \/ Shutdown

Spec == Init /\ [][Next]_vars

\* ------------------------------------------------------------- properties
TaskIds == 1..Len(tasks)

\* the tracker tasks of a group that have neither returned nor raised
LiveTasks(g) ==
  {i \in TaskIds : tasks[i].battery_ids = g /\ tasks[i].pc \in {"recv", "send"}}

MonitorExists(g) == \E i \in TaskIds : tasks[i].battery_ids = g

\* the _send_report frames of _run and of every tracker task
Frames == {cfan} \cup {tasks[i].frame : i \in TaskIds}

\* C1: handle_proposal is only ever called with the cached snapshot of the
\* proposal's group present: no lookup of a missing group is made, and every
\* call saw at least the first value of the group's bounds channel.
C1_SnapshotBeforeArbitration ==
  /\ error # "KeyError"
  /\ Len(handled) <= Len(taken)
  /\ \A i \in 1..Len(handled) :
       /\ handled[i].version >= 1
       /\ handled[i].bounds \in BoundsValues
  /\ cpc = "send_request" => group_of(selected) \in DOMAIN system_bounds

\* a proposal of a group without subscriptions has been arbitrated against
\* the first value of the tracker created for it
C1_Witness ==
  /\ cpc = "send_request"
  /\ group_of(selected) \notin DOMAIN subscriptions
  /\ handled[Len(handled)].version = 1
  /\ MonitorExists(group_of(selected))

\* C2: at most one tracker task is live for a group.
C2_OneLiveMonitor == \A g \in Groups : Cardinality(LiveTasks(g)) <= 1

\* a proposal and a subscription request of the same group have been taken
C2_Witness ==
  /\ G12 \in DOMAIN subscriptions
  /\ \E i \in 1..Len(taken) : taken[i].battery_ids = G12
  /\ Cardinality(LiveTasks(G12)) = 1

\* C3: a fan-out that a tracker has left sent one report to each sender the
\* group held when the update was stored, in the new bounds, and nothing else.
C3_FanoutComplete ==
  \A i \in TaskIds :
    LET f == tasks[i].frame
        g == tasks[i].battery_ids
    IN  (tasks[i].pc # "send" /\ f.status # "none") =>
          /\ Len(f.delivered) = Len(f.snapshot)
          /\ \A k \in 1..Len(f.delivered) :
               /\ f.delivered[k].sender = f.snapshot[k].sender
               /\ f.delivered[k].report =
                    get_status(g, f.snapshot[k].priority,
                               applied[g][Len(applied[g])])

\* C4: the fan-out _run makes for a subscription request neither raises nor
\* skips for want of bounds, and when _run is back at select after the request
\* that fan-out has returned and has delivered a report of the request's
\* priority to the sender registered for the request's pair.
C4_InitialReport ==
  /\ error # "RuntimeError"
  /\ cfan.status \notin {"warned", "RuntimeError"}
  /\ (cpc = "select" /\ selected.kind = "sub") =>
    LET g == group_of(selected)
        p == selected.value.priority
    IN  /\ cfan.status = "returned"
        /\ cfan.battery_ids = g
        /\ error = "none"
        /\ \E k \in 1..Len(cfan.delivered) :
             /\ cfan.delivered[k].sender = sender_of(subscriptions[g], p)
             /\ cfan.delivered[k].report.priority = p
             /\ cfan.delivered[k].report.battery_ids = g
             /\ cfan.delivered[k].report.bounds \in BoundsValues

\* the first event was a subscription request, it is processed, and the
\* group's channel has yielded nothing but its first value
C4_Witness ==
  /\ cpc = "select"
  /\ selected.kind = "sub"
  /\ nsubs = 1
  /\ taken = <<>>
  /\ Len(applied[group_of(selected)]) = 1

\* C5: the requests accepted downstream are, in order, the requests of the
\* proposals taken: power as handle_proposal returned it, the proposal's
\* group, timeout and flag, adjust_power set; none is missing once _run is
\* back at select.
C5_OneRequestPerProposal ==
  /\ Len(requests) <= Len(handled)
  /\ Len(handled) <= Len(requests) + 1
  /\ Len(handled) <= Len(taken)
  /\ (cpc = "select" /\ error = "none") => Len(requests) = Len(taken)
  /\ \A i \in 1..Len(requests) :
       requests[i] =
         [power |-> handled[i].target_power,
          batteries |-> taken[i].battery_ids,
          request_timeout |-> taken[i].request_timeout,
          adjust_power |-> TRUE,
          include_broken_batteries |-> taken[i].include_broken_batteries]

\* two requests went out and one of them carries a clamped power
C5_Witness ==
  /\ Len(requests) = 2
  /\ \E i \in 1..2 : requests[i].power # taken[i].power

\* C6: nothing but the trackers of the group a stalled channel belongs to
\* ever waits for that channel; _run does not.
C6_Isolation ==
  \A c \in stalled :
    /\ ~(cpc = "send_report" /\ pending(cfan, subscriptions).sender = c)
    /\ \A i \in TaskIds :
         (tasks[i].pc = "send"
            /\ pending(tasks[i].frame, subscriptions).sender = c) =>
           \E k \in 1..Len(items(subscriptions, tasks[i].battery_ids)) :
             subscriptions[tasks[i].battery_ids][k].sender = c

\* C7: every handle_proposal call got the value most recently written for
\* the proposal's own group at the time of the call.
C7_FreshBounds ==
  \A i \in 1..Len(handled) :
    LET g == taken[i].battery_ids IN
    /\ handled[i].version >= 1
    /\ handled[i].version <= Len(applied[g])
    /\ handled[i].bounds = applied[g][handled[i].version]

\* a proposal has been arbitrated after its group's tracker stored an update
C7_Witness ==
  \E i \in 1..Len(handled) :
    /\ handled[i].version = 2
    /\ handled[i].bounds # applied[taken[i].battery_ids][1]

\* C8: a pair has one sender however often it is requested, and no fan-out
\* delivers two reports of one pair.
C8_Idempotent ==
  /\ \A g \in DOMAIN subscriptions :
       \A j, k \in 1..Len(subscriptions[g]) :
         j # k => subscriptions[g][j].priority # subscriptions[g][k].priority
  /\ \A f \in Frames :
       \A j, k \in 1..Len(f.delivered) :
         j # k => f.delivered[j].report.priority # f.delivered[k].report.priority
  /\ (selected.kind = "sub" /\ prior = selected.value.channel) =>
       Cardinality({k \in 1..Len(subscriptions[group_of(selected)]) :
                      subscriptions[group_of(selected)][k].sender = prior}) = 1

\* the request of a pair and channel already registered has been processed,
\* fan-out included
C8_Witness ==
  /\ selected.kind = "sub"
  /\ prior = selected.value.channel
  /\ cpc = "select"
  /\ cfan.status = "returned"
  /\ Len(cfan.delivered) >= 1

\* C9 as claimed: after a subscription request the pair's sender is the
\* request's.
C9_Overwrites ==
  selected.kind = "sub" =>
    sender_of(subscriptions[group_of(selected)], selected.value.priority)
      = selected.value.channel

\* C9: after a subscription request the pair's sender is the request's when
\* the pair was new, and the sender it already had otherwise.
C9_KeepsFirst ==
  selected.kind = "sub" =>
    sender_of(subscriptions[group_of(selected)], selected.value.priority)
      = IF prior = "none" THEN selected.value.channel ELSE prior

\* a request for a registered pair, naming another channel, has been taken
C9_Witness ==
  /\ selected.kind = "sub"
  /\ prior # "none"
  /\ prior # selected.value.channel

\* C10 as claimed: a group has a tracker exactly when it has appeared in an
\* event taken.
C10_Iff == \A g \in Groups : MonitorExists(g) <=> g \in seen

\* C10: a tracker exists only for a group that has appeared in an event taken,
\* and a group that has appeared lacks one only while _run awaits the first
\* value of its bounds channel, or after that await has raised (the receiver
\* has stopped, or _run was cancelled there).
C10_AfterFirstValue ==
  \A g \in Groups :
    /\ MonitorExists(g) => g \in seen
    /\ MonitorExists(g) <=> g \in DOMAIN bound_tracker_tasks
    /\ (g \in seen /\ ~MonitorExists(g)) =>
         /\ group_of(selected) = g
         /\ \/ cpc = "recv_first"
            \/ cpc = "raised" /\ error = "ReceiverStoppedError"
            \/ cpc = "cancelled"

\* one group has appeared and has its tracker, the other has neither
C10_Witness ==
  /\ seen = {G12}
  /\ MonitorExists(G12)
  /\ ~MonitorExists(G3)
  /\ cpc = "select"

\* ------------------------------------------------- a run with fixed input
\* all sequences over S of length at most n
RECURSIVE SeqsUpTo(_, _)
SeqsUpTo(S, n) ==
  IF n = 0 THEN {<<>>}
  ELSE LET shorter == SeqsUpTo(S, n - 1) IN
       shorter \cup {Append(q, x) : q \in shorter, x \in S}

\* the report requests callers place in such a run: two priorities of one
\* group, each with its own channel
PlacedSubs == {sub \in SubInputs : sub.channel \in {"a", "b"}}

\* what callers place on the two receivers: any proposals and any requests,
\* in any order on each, MaxEvents messages at most
Placements ==
  {pl \in [proposals : SeqsUpTo(ProposalInputs, MaxEvents),
           subs : SeqsUpTo(PlacedSubs, MaxEvents)] :
     Len(pl.proposals) + Len(pl.subs) <= MaxEvents}

\* lines 58-69 with the supported algorithm; every report channel accepts
LiveInit ==
  /\ Constructed
  /\ algorithm_arg = "MATRYOSHKA"
  /\ stalled = {}
  /\ placed \in Placements

\* line 131: select yields the next message of the proposals receiver
LiveTakeProposal ==
  /\ Len(taken) < Len(placed.proposals)
  /\ TakeProposal(placed.proposals[Len(taken) + 1])

\* line 131: select yields the next message of the subscription receiver
LiveTakeSub ==
  /\ nsubs < Len(placed.subs)
  /\ TakeSub(placed.subs[nsubs + 1])

\* a step of the task that runs _run
CoordinatorStep ==
  \/ LiveTakeProposal
  \/ LiveTakeSub
  \/ \E bounds \in BoundsValues : RecvFirst(bounds)
  \/ SendRequestDone
  \/ SendReportDone

\* a step of the i-th tracker task
MonitorStep(i) ==
  /\ i \in 1..Len(tasks)
  /\ \/ \E bounds \in BoundsValues : TrackerUpdate(i, bounds)
     \/ TrackerSendDone(i)
     \/ TrackerStopped(i)

LiveNext ==
  \/ LiveTakeProposal
  \/ LiveTakeSub
  \/ \E bounds \in BoundsValues : RecvFirst(bounds)
  \/ SendRequestDone
  \/ SendReportDone
  \/ \E i \in 1..Len(tasks), bounds \in BoundsValues : TrackerUpdate(i, bounds)
  \/ \E i \in 1..Len(tasks) : TrackerSendDone(i)
  \/ \E i \in 1..Len(tasks) : TrackerStopped(i)

\* the event loop runs every task that can run: the task of _run and every
\* tracker task
LiveSpec ==
  /\ LiveInit
  /\ [][LiveNext]_vars
  /\ WF_vars(CoordinatorStep)
  /\ \A i \in 1..Cardinality(Groups) : WF_vars(MonitorStep(i))

\* C11: a failure while one proposal or subscription event is processed (in
\* the first receive of the group's bounds, the arbitration, the send of the
\* request or the fan-out) stays with that event: _run's loop is never left
\* by an exception.
C11_LoopSurvives == cpc # "raised"

\* C12: once the actor is shut down, no tracker task stores a bounds value
\* and no tracker task delivers a report: the tasks, the stored values and
\* what the channels were shown stay as they were.
C12_QuietAfterShutdown ==
  [][cpc = "cancelled" =>
       /\ tasks' = tasks
       /\ applied' = applied
       /\ system_bounds' = system_bounds
       /\ latest' = latest]_vars

\* C13: __init__ called with an algorithm other than MATRYOSHKA raises
\* before any attribute (so any table) is set, and no loop ever runs; called
\* with MATRYOSHKA it sets all attributes and the three tables are empty
\* until the first event is taken.
C13_ConstructionGuard ==
  /\ algorithm_arg # "MATRYOSHKA" =>
       /\ error = "NotImplementedError"
       /\ cpc = "rejected"
       /\ attrs = {}
       /\ taken = <<>> /\ nsubs = 0 /\ tasks = <<>> /\ requests = <<>>
  /\ algorithm_arg = "MATRYOSHKA" =>
       /\ attrs = Attrs
       /\ (taken = <<>> /\ nsubs = 0) =>
            /\ system_bounds = EmptyDict
            /\ bound_tracker_tasks = EmptyDict
            /\ subscriptions = EmptyDict

\* __init__ was called with another algorithm and has raised
C13_Witness ==
  /\ algorithm_arg = "OTHER"
  /\ cpc = "rejected"
  /\ error = "NotImplementedError"

\* C14: the values a group's tracker receives are written to the cache in
\* the order of the channel, none skipped or repeated; the cache holds the
\* last one written; while the fan-out of a value is unfinished its tracker
\* is suspended in it (so writes no next value) and every report of the
\* fan-out carries that value.
C14_InOrder ==
  \A i \in TaskIds :
    LET g == tasks[i].battery_ids
        f == tasks[i].frame
    IN  /\ \A k \in 1..Len(applied[g]) : applied[g][k] = Stream(g, k)
        /\ system_bounds[g] = Stream(g, Len(applied[g]))
        /\ f.status = "sending" =>
             /\ tasks[i].pc = "send"
             /\ f.bounds = system_bounds[g]
        /\ \A j \in 1..Len(f.delivered) : f.delivered[j].report.bounds = f.bounds

\* a tracker has written the third value of its channel after the second
\* and has finished the fan-out of the third
C14_Witness ==
  \E i \in TaskIds :
    LET g == tasks[i].battery_ids
        f == tasks[i].frame
    IN  /\ Len(applied[g]) = 3
        /\ f.status = "returned"
        /\ f.bounds = Stream(g, 3)
        /\ Len(f.delivered) >= 1
        /\ tasks[i].pc = "recv"

\* C15: while a tracker's fan-out for a group is under way, the priorities
\* registered for the group are those it started with, and no tracker's
\* fan-out fails because the dict changed under it.
C15_UndisturbedFanout ==
  \A i \in TaskIds :
    LET f == tasks[i].frame IN
    /\ f.status = "sending" =>
         priorities(items(subscriptions, f.battery_ids)) = priorities(f.snapshot)
    /\ f.status # "RuntimeError"

\* C16: no channel is shown a report made from an older value of its group's
\* bounds after a report made from a newer one.
C16_NoOlderAfterNewer == ~reordered

\* C17: no _send_report call, of _run or of a tracker, finds the group
\* missing from the cache (the warning of lines 78-80 is never logged).
C17_NeverWarned == \A f \in Frames : f.status # "warned"

\* _run and a tracker have each finished a fan-out that delivered a report
C17_Witness ==
  /\ cfan.status = "returned" /\ Len(cfan.delivered) >= 1
  /\ \E i \in TaskIds :
       /\ tasks[i].frame.status = "returned"
       /\ Len(tasks[i].frame.delivered) >= 1

\* C18: whenever the actor is suspended, the groups in the bounds cache are
\* the groups in the tracker table.
C18_SameDomains == DOMAIN system_bounds = DOMAIN bound_tracker_tasks

\* both paths have made their check: a subscription and a proposal were
\* taken and both groups are in both tables
C18_Witness ==
  /\ DOMAIN system_bounds = Groups
  /\ DOMAIN bound_tracker_tasks = Groups
  /\ nsubs >= 1
  /\ Len(taken) >= 1

\* C19: no step removes a group from the cache, the tracker table or the
\* subscription table, or a priority from a group's subscriptions; a task is
\* created only for a group without one, and the task stored for a group is
\* never replaced.
C19_OnlyGrow ==
  [][/\ DOMAIN system_bounds \subseteq DOMAIN system_bounds'
     /\ DOMAIN bound_tracker_tasks \subseteq DOMAIN bound_tracker_tasks'
     /\ \A g \in DOMAIN bound_tracker_tasks :
          bound_tracker_tasks'[g] = bound_tracker_tasks[g]
     /\ DOMAIN subscriptions \subseteq DOMAIN subscriptions'
     /\ \A g \in DOMAIN subscriptions :
          priorities(subscriptions[g]) \subseteq priorities(subscriptions'[g])
     /\ Len(tasks') >= Len(tasks)
     /\ Len(tasks') > Len(tasks) =>
          /\ Len(tasks') = Len(tasks) + 1
          /\ tasks'[Len(tasks')].battery_ids \notin DOMAIN bound_tracker_tasks]_vars

\* the tracker of a group has ended with its channel, is still the group's
\* entry in the table, and _run has since finished a later subscription for
\* the same group without creating another
C19_Witness ==
  \E i \in TaskIds :
    LET g == tasks[i].battery_ids IN
    /\ tasks[i].pc = "done"
    /\ bound_tracker_tasks[g] = i
    /\ Len(applied[g]) = 1
    /\ cpc = "select"
    /\ selected.kind = "sub"
    /\ group_of(selected) = g
    /\ nsubs >= 2
    /\ Cardinality({j \in TaskIds : tasks[j].battery_ids = g}) = 1

\* every placed message has been served: each proposal was taken and its
\* request accepted by the power distributing sender, each report request
\* was taken, its priority is registered and its channel was shown a report,
\* and _run is back at select
Served ==
  /\ cpc = "select"
  /\ error = "none"
  /\ Len(taken) = Len(placed.proposals)
  /\ nsubs = Len(placed.subs)
  /\ Len(requests) = Len(placed.proposals)
  /\ \A k \in 1..Len(placed.proposals) :
       /\ taken[k] = placed.proposals[k]
       /\ requests[k].batteries = placed.proposals[k].battery_ids
  /\ \A k \in 1..Len(placed.subs) :
       LET sub == placed.subs[k]
           its == items(subscriptions, sub.battery_ids)
       IN  /\ sub.priority \in priorities(its)
           /\ sender_of(its, sub.priority) = get_channel_name(sub)
           /\ latest[get_channel_name(sub)] >= 1

====
